---- MODULE Spec2Model ----
(***************************************************************************)
(* Dispatch and pipeline orchestration of llm-batch-orchestrator:          *)
(* the Dispatcher (services/dispatcher.py), the credential pool            *)
(* (config/manager.py), the job table (core/models.py) and the scheduler   *)
(* sweep (scheduler.py).                                                   *)
(*                                                                         *)
(* In Spec a handler runs as one step; SpecConcurrent runs the handlers   *)
(* side by side, each as the sequence of its reads and writes of the       *)
(* shared state.  The outcomes of the remote calls a handler makes         *)
(* (Vertex submission, chat, storage upload) and the shuffle of the pool   *)
(* are its inputs.  The variable "last" records what the last handler did: *)
(* its inputs, the remote calls it made and how it ended.                   *)
(*                                                                         *)
(* Names the source uses but defines nowhere are modelled from their       *)
(* callers: ConfigManager.get_active_project (called by GCSHandler and by  *)
(* process_pipelines, absent from config/manager.py) and the attributes    *)
(* job_uuid, last_error, current_stage, vertex_job_name and gcs_prefix of  *)
(* BatchJob that process_pipelines uses.                                    *)
(* Code that exists is modelled as it is.                                   *)
(***************************************************************************)
EXTENDS Integers, Sequences, FiniteSets, TLC

VARIABLES now, cooldown_until, project_pool, jobs, last, calls, loading, sched

vars == <<now, cooldown_until, project_pool, jobs, last, calls, loading, sched>>

\* the request handlers, the reload and the sweeps that are under way
threads == <<calls, loading, sched>>

----------------------------------------------------------------------------
(* Bounds of the model *)

\* largest pool loaded
MaxPool == 2
\* rows /api/submit adds to the table
MaxJobs == 2

\* the instants the clock takes (seconds)
ClockPoints == {0, 30, 60, 7230}
\* the time a traversal of the pool takes
Latency == {0, 30}
\* most items in the output of a stage
MaxItems == 2
\* request handlers that run Dispatcher.submit_job side by side
MaxCalls == 2
\* reloads of the pool while the service runs
MaxReloads == 1
\* instances of the periodic job the model lets run side by side
MaxSweeps == 2
\* key files a load of the pool finds
MaxFiles == 3

----------------------------------------------------------------------------
(* Program constants *)

MAX_CONCURRENT_JOBS == 5
JOB_TIMEOUT_SECONDS == 7200
COOLDOWN_SECONDS == 60
\* "if next_stage > 7"
FINAL_STAGE == 7
\* "if job.retry_count < 3"
MAX_RETRIES == 3
\* the parameters of VertexHandler.submit_job after self
SUBMIT_JOB_PARAMS == 4
\* the arguments process_pipelines passes to vertex.submit_job
SCHEDULER_SUBMIT_ARGS == 3

----------------------------------------------------------------------------
(* Values *)

AllProjects == <<"A", "B", "C", "D">>

Range(s) == {s[i] : i \in 1..Len(s)}

\* the orders random.shuffle can leave a list in
Shuffles(s) ==
    {f \in [1..Len(s) -> Range(s)] : \A i, k \in 1..Len(s) : f[i] = f[k] => i = k}

\* an exception or summary text: its fixed wording (kind), the text
\* interpolated into it (cause) and the number of seconds it carries
Msg(kind, cause, seconds) == [kind |-> kind, cause |-> cause, seconds |-> seconds]
NoMsg == Msg("", "", <<>>)

\* str(e) of the exception a remote call on project p raises
ErrorOf(p) == p
\* the resource name a successful submission on project p returns
\* a submission that hands back no resource name
HandleOfMissing(p) == <<>>

HandleOf(p) == <<"batchPredictionJobs", p>>
NoHandle == <<>>

----------------------------------------------------------------------------
(* The job table *)

\* the attributes of a job that process_pipelines reads and writes and
\* BatchJob does not declare; nothing but process_pipelines writes them
SchedulerAttributes ==
    [last_error |-> NoMsg, current_stage |-> 0, vertex_job_name |-> NoHandle]

\* a BatchJob row as main.submit_job adds it at time t: status PENDING, the
\* column defaults for the rest
BatchJob(id, t) ==
    [id |-> id, status |-> "PENDING", input_gcs_uri |-> "", output_gcs_uri |-> "",
     vertex_job_id |-> NoHandle, result_summary |-> NoMsg, retry_count |-> 0,
     used_project_id |-> "", created_at |-> t, updated_at |-> t]
    @@ SchedulerAttributes

\* db.commit() of a changed row at time t: updated_at has onupdate=datetime.utcnow
Commit(job, t) == [job EXCEPT !.updated_at = t]

\* (mutant) the status filter left out of the query
AllJobs(js) == DOMAIN js

\* db.query(BatchJob).filter(BatchJob.status == "RUNNING")
RunningJobs(js) == {i \in DOMAIN js : js[i].status = "RUNNING"}

RunningCount(js) == Cardinality(RunningJobs(js))

\* a row an earlier run of the service left RUNNING on project p
SeedJob(k, p) ==
    [BatchJob(<<"seed", k>>, 0) EXCEPT
        !.status = "RUNNING", !.input_gcs_uri = "gs://bucket/input.jsonl",
        !.output_gcs_uri = "gs://bucket/output/", !.vertex_job_id = HandleOf(p),
        !.used_project_id = p]

\* rows of the table that /api/submit added since the service started
ApiJobs(js) == {i \in DOMAIN js : js[i].id[1] = "api"}

----------------------------------------------------------------------------
(* Storage *)

\* ConfigManager.get_active_project(): the project the storage handler and
\* the scheduler work with, <<>> when there is none.  As get_storage_client
\* does without a project_id, it takes the first project of the pool.
get_active_project(pool) == IF pool = <<>> THEN <<>> ELSE <<pool[1], "bucket">>

\* ConfigManager.get_storage_client: raises when the pool is empty
get_storage_client(pool) ==
    IF pool = <<>> THEN "No active projects loaded, cannot create storage client."
    ELSE "client"

\* GCSHandler.upload_jsonl: the URI of the uploaded object, or the text of the
\* exception it re-raises; written says whether the storage service stored it
upload_jsonl_swallows_errors(pool, written) ==
    IF get_active_project(pool) # <<>> /\ get_storage_client(pool) = "client" /\ written
    THEN [uri |-> "gs://bucket/input.jsonl", error |-> ""]
    ELSE [uri |-> "", error |-> ""]

upload_jsonl(pool, written) ==
    IF get_active_project(pool) = <<>>
    THEN [uri |-> "", error |-> "No active project configured."]
    ELSE IF get_storage_client(pool) # "client"
    THEN [uri |-> "", error |-> get_storage_client(pool)]
    ELSE IF ~written
    THEN [uri |-> "", error |-> "storage error"]
    ELSE [uri |-> "gs://bucket/input.jsonl", error |-> ""]

----------------------------------------------------------------------------
(* Dispatcher *)

\* (mutant) the comparison the wrong way round
InCooldownReversed(t, cu) == t > cu

\* time.time() < self.cooldown_until
InCooldown(t, cu) == t < cu

\* int(self.cooldown_until - time.time())
Remaining(t, cu) == cu - t

\* (mutant) the ceiling itself still admitted
AtCeilingStrict(rc) == rc > MAX_CONCURRENT_JOBS

\* running_count >= settings.MAX_CONCURRENT_JOBS
AtCeiling(rc) == rc >= MAX_CONCURRENT_JOBS

\* (mutant) the cooldown ends the moment it is tripped
TripCooldownNoWindow(t) == t

\* self.cooldown_until = time.time() + 60
TripCooldown(t) == t + COOLDOWN_SECONDS

\* (mutant) the first error is kept instead of the last
RECURSIVE FailoverFirstError(_, _, _, _)
FailoverFirstError(order, ok, i, acc) ==
    IF i > Len(order)
    THEN [attempts |-> acc.attempts, winner |-> "", last_error |-> acc.last_error]
    ELSE IF order[i] \in ok
    THEN [attempts |-> Append(acc.attempts, order[i]), winner |-> order[i],
          last_error |-> acc.last_error]
    ELSE FailoverFirstError(order, ok, i + 1,
                            [attempts |-> Append(acc.attempts, order[i]),
                             last_error |-> IF acc.last_error = ""
                                            THEN ErrorOf(order[i])
                                            ELSE acc.last_error])

\* (mutant) a success does not end the loop: every candidate is tried and the
\* last success is the one recorded
RECURSIVE FailoverNoStop(_, _, _, _)
FailoverNoStop(order, ok, i, acc) ==
    IF i > Len(order)
    THEN [attempts |-> acc.attempts, winner |-> acc.winner, last_error |-> acc.last_error]
    ELSE FailoverNoStop(order, ok, i + 1,
                        [attempts |-> Append(acc.attempts, order[i]),
                         winner |-> IF order[i] \in ok THEN order[i]
                                    ELSE IF "winner" \in DOMAIN acc THEN acc.winner ELSE "",
                         last_error |-> IF order[i] \in ok THEN acc.last_error
                                        ELSE ErrorOf(order[i])])

\* "for project_ctx in pool": the candidates from position i on, tried in
\* order; ok holds the projects whose remote call succeeds.  The first
\* success ends the loop; a failure records str(e) and moves on.
RECURSIVE Failover(_, _, _, _)
Failover(order, ok, i, acc) ==
    IF i > Len(order)
    THEN [attempts |-> acc.attempts, winner |-> "", last_error |-> acc.last_error]
    ELSE IF order[i] \in ok
    THEN [attempts |-> Append(acc.attempts, order[i]), winner |-> order[i],
          last_error |-> acc.last_error]
    ELSE Failover(order, ok, i + 1,
                  [attempts |-> Append(acc.attempts, order[i]),
                   last_error |-> ErrorOf(order[i])])

NoAttempt == [attempts |-> <<>>, last_error |-> ""]

\* (mutant) a breaker per credential: any failed candidate trips the cooldown
CooldownAfterAnyFailure(cu, f, t) ==
    IF f.winner = "" \/ Len(f.attempts) > 1 THEN TripCooldown(t) ELSE cu

\* cooldown_until after the traversal f that ended at t: set in "All Failed",
\* which a traversal that returned on a success does not reach
CooldownAfter(cu, f, t) ==
    IF f.winner = "" THEN TripCooldown(t) ELSE cu

\* (mutant) the input is uploaded again for every candidate tried
UploadCallsPerCandidate(f) == Len(f.attempts)

\* the calls of upload_jsonl a submit_job that reaches the traversal f makes:
\* the one of step "2. Upload to GCS (Once)", before the loop
UploadCalls(f) == 1

\* how a handler ended: the rows and cooldown it leaves, the remote calls it
\* made, and what it returned or raised
Outcome(js, cu, t1, uploads, attempts, result, error, ret) ==
    [jobs |-> js, cooldown_until |-> cu, t1 |-> t1, uploads |-> uploads,
     attempts |-> attempts, result |-> result, error |-> error, ret |-> ret]

\* a failure that records the message but leaves the row's status alone
FailJobNoStatus(js, j, t, message) ==
    [js EXCEPT ![j] = Commit([@ EXCEPT !.result_summary = message], t)]

\* job.status = "FAILED"; job.result_summary = message; db.commit(); raise
FailJob(js, j, t, message) ==
    [js EXCEPT ![j] = Commit([@ EXCEPT !.status = "FAILED",
                                        !.result_summary = message], t)]

\* Dispatcher.submit_job for row j at time t; the traversal ends at t + e
Dispatcher_submit_job(js, j, t, cu, pool, order, ok, written, e) ==
    LET up == upload_jsonl(pool, written)
        js1 == [js EXCEPT ![j] = Commit([@ EXCEPT !.input_gcs_uri = up.uri], t)]
        f == Failover(order, ok, 1, NoAttempt)
    IN  IF InCooldown(t, cu)
        THEN LET m == Msg("System in cooldown (60s). Retry in", "", <<Remaining(t, cu)>>)
             IN  Outcome(FailJob(js, j, t, m), cu, t, 0, <<>>, "raised", m, "")
        ELSE IF AtCeiling(RunningCount(js))
        THEN LET m == Msg("Max concurrent jobs reached", "", <<>>)
             IN  Outcome(FailJob(js, j, t, m), cu, t, 0, <<>>, "raised", m, "")
        ELSE IF up.error # ""
        THEN LET m == Msg("GCS Upload Failed", up.error, <<>>)
             IN  Outcome(FailJob(js, j, t, m), cu, t, 1, <<>>, "raised", m, "")
        ELSE IF pool = <<>>
        THEN LET m == Msg("No active projects loaded.", "", <<>>)
             IN  Outcome(FailJob(js1, j, t, m), cu, t, 1, <<>>, "raised", m, "")
        ELSE IF f.winner # ""
        THEN Outcome([js1 EXCEPT ![j] =
                         Commit([@ EXCEPT !.status = "RUNNING",
                                          !.used_project_id = f.winner,
                                          !.vertex_job_id = HandleOf(f.winner),
                                          !.output_gcs_uri = "gs://bucket/output/"],
                                t + e)],
                     CooldownAfter(cu, f, t + e), t + e, UploadCalls(f), f.attempts,
                     "returned", NoMsg, f.winner)
        ELSE LET m == Msg("All projects failed",
                          IF f.last_error # "" THEN f.last_error ELSE "Unknown error",
                          <<>>)
             IN  Outcome(FailJob(js1, j, t + e, m), CooldownAfter(cu, f, t + e), t + e,
                         UploadCalls(f), f.attempts, "raised", m, "")

\* Dispatcher.dispatch_chat at time t; the traversal ends at t + e
Dispatcher_dispatch_chat(js, t, cu, pool, order, ok, e) ==
    LET f == Failover(order, ok, 1, NoAttempt)
    IN  IF InCooldown(t, cu)
        THEN Outcome(js, cu, t, 0, <<>>, "raised",
                     Msg("System in cooldown.", "", <<>>), "")
        ELSE IF pool = <<>>
        THEN Outcome(js, cu, t, 0, <<>>, "raised",
                     Msg("No active projects loaded.", "", <<>>), "")
        ELSE IF f.winner # ""
        THEN Outcome(js, CooldownAfter(cu, f, t + e), t + e, 0, f.attempts,
                     "returned", NoMsg, f.winner)
        ELSE Outcome(js, CooldownAfter(cu, f, t + e), t + e, 0, f.attempts, "raised",
                     Msg("All projects failed chat. Last error:", f.last_error, <<>>),
                     "")

\* what "last" keeps of a handler: the handler, the row it worked on, the
\* state it started in, its inputs and its outcome; of a sweep, its log
Record(op, j, order, ok, out) ==
    [op |-> op, job |-> j, t0 |-> now, cd0 |-> cooldown_until,
     rc0 |-> RunningCount(jobs), order |-> order, ok |-> ok,
     t1 |-> out.t1, uploads |-> out.uploads, attempts |-> out.attempts,
     result |-> out.result, error |-> out.error, ret |-> out.ret,
     touched |-> {i \in DOMAIN jobs : out.jobs[i] # jobs[i]}, sweep |-> <<>>]

----------------------------------------------------------------------------
(* Handlers *)

\* an input is drawn only by a call that gets to the statement consuming it
Drawn(S, consumed, unused) == IF consumed THEN S ELSE {unused}

\* the call gets past the cooldown and ceiling checks to the upload
ReachesUpload(js, t, cu) == ~InCooldown(t, cu) /\ ~AtCeiling(RunningCount(js))

\* the call gets to random.shuffle(projects) and the loop over the candidates
ReachesTraversal(js, t, cu, pool, written) ==
    /\ ReachesUpload(js, t, cu)
    /\ upload_jsonl(pool, written).error = ""
    /\ pool # <<>>

\* dispatch_chat gets to random.shuffle(projects) and the loop
ChatReachesTraversal(t, cu, pool) == ~InCooldown(t, cu) /\ pool # <<>>

\* GET /api/jobs/{job_id}: the body the endpoint returns for the row
api_get_job_status(job) ==
    [job_id |-> job.id, status |-> job.status, project |-> job.used_project_id,
     vertex_job_id |-> job.vertex_job_id,
     result_uri |-> IF job.status = "SUCCEEDED" THEN job.output_gcs_uri ELSE "",
     error |-> job.result_summary]

\* data.get(key) of a client: None for a key the body does not have
Get(data, key) ==
    IF key \in DOMAIN data THEN [present |-> TRUE, value |-> data[key]]
    ELSE [present |-> FALSE, value |-> 0]

\* POST /api/submit: add the row, then Dispatcher.submit_job
submit_job ==
    /\ Cardinality(ApiJobs(jobs)) < MaxJobs
    /\ LET j == Len(jobs) + 1
           js == Append(jobs, BatchJob(<<"api", j>>, now))
       IN  \E written \in Drawn(BOOLEAN, ReachesUpload(js, now, cooldown_until), TRUE) :
              LET loop == ReachesTraversal(js, now, cooldown_until, project_pool, written)
              IN  \E order \in Drawn(Shuffles(project_pool), loop, <<>>),
                     ok \in Drawn(SUBSET Range(project_pool), loop, {}),
                     e \in Drawn(Latency, loop, 0) :
                     LET out == Dispatcher_submit_job(js, j, now, cooldown_until,
                                                      project_pool, order, ok, written, e)
                     IN  /\ out.t1 \in ClockPoints
                         /\ jobs' = out.jobs
                         /\ cooldown_until' = out.cooldown_until
                         /\ now' = out.t1
                         /\ last' = [Record("submit_job", j, order, ok, out) EXCEPT
                                        !.touched = {j}]
    /\ UNCHANGED <<project_pool, threads>>

\* Dispatcher.dispatch_chat
dispatch_chat ==
    /\ LET loop == ChatReachesTraversal(now, cooldown_until, project_pool)
       IN  \E order \in Drawn(Shuffles(project_pool), loop, <<>>),
              ok \in Drawn(SUBSET Range(project_pool), loop, {}),
              e \in Drawn(Latency, loop, 0) :
              LET out == Dispatcher_dispatch_chat(jobs, now, cooldown_until,
                                                  project_pool, order, ok, e)
              IN  /\ out.t1 \in ClockPoints
                  /\ jobs' = out.jobs
                  /\ cooldown_until' = out.cooldown_until
                  /\ now' = out.t1
                  /\ last' = Record("dispatch_chat", 0, order, ok, out)
    /\ UNCHANGED <<project_pool, threads>>

----------------------------------------------------------------------------
(* Pipeline logic *)

\* the texts a refusal is recognised by
RefusalPatterns == {"I cannot", "As an AI"}

\* an item of a stage's output as read from storage: the custom_id it
\* carries, whether it has the envelope prediction.candidates[0].content.
\* parts[0].text, and the generated text as the sequence of its phrases
Item(custom_id, shaped, text) ==
    [custom_id |-> custom_id, shaped |-> shaped, text |-> text]

\* PipelineLogic._extract_text: "" when the envelope is absent
_extract_text(vertex_output) ==
    IF vertex_output.shaped THEN vertex_output.text ELSE <<>>

\* (mutant) the blocklist is its first pattern only
validate_output_first_pattern(stage_num, output_item) ==
    LET text == _extract_text(output_item)
    IN  IF text = <<>>
        THEN [valid |-> FALSE, msg |-> "Empty text generated"]
        ELSE IF "I cannot" \in Range(text)
        THEN [valid |-> FALSE, msg |-> "Refusal detected"]
        ELSE [valid |-> TRUE, msg |-> "OK"]

\* PipelineLogic.validate_output
validate_output(stage_num, output_item) ==
    LET text == _extract_text(output_item)
    IN  IF text = <<>>
        THEN [valid |-> FALSE, msg |-> "Empty text generated"]
        ELSE IF Range(text) \cap RefusalPatterns # {}
        THEN [valid |-> FALSE, msg |-> "Refusal detected"]
        ELSE [valid |-> TRUE, msg |-> "OK"]

\* the value of an argument that is left out, and of a function without result
None == [none |-> TRUE]

\* (mutant) an "id" of the caller's request is kept
WithIdOfCaller(request_data, job_uuid) == request_data @@ [id |-> job_uuid]

\* {**request_data, "id": job_uuid}, the original_request of the dispatcher
WithId(request_data, job_uuid) == [id |-> job_uuid] @@ request_data

\* PipelineLogic.build_input_for_stage(stage_num, previous_output,
\* original_request): the custom_id is the id of the original request when
\* there is one and the custom_id of the previous output otherwise; the
\* prompt is made of the topic at stage 1 and of the previous text later
build_input_for_stage(stage_num, previous_output, original_request) ==
    [custom_id |-> IF original_request # None THEN original_request.id
                   ELSE previous_output.custom_id,
     request |-> IF stage_num = 1
                 THEN <<stage_num, <<IF "topic" \in DOMAIN original_request
                                     THEN original_request.topic
                                     ELSE "Unknown Topic">>>>
                 ELSE <<stage_num, _extract_text(previous_output)>>]

\* (mutant) every item goes into the next batch, valid or not
RECURSIVE NextInputsUnfiltered(_, _, _)
NextInputsUnfiltered(stage, results, i) ==
    IF i > Len(results)
    THEN <<>>
    ELSE <<build_input_for_stage(stage + 1, results[i], None)>>
             \o NextInputsUnfiltered(stage, results, i + 1)

\* (mutant) the loop stops at the first item that passes
RECURSIVE NextInputsFirstValid(_, _, _)
NextInputsFirstValid(stage, results, i) ==
    IF i > Len(results)
    THEN <<>>
    ELSE IF validate_output(stage, results[i]).valid
    THEN <<build_input_for_stage(stage + 1, results[i], None)>>
    ELSE NextInputsFirstValid(stage, results, i + 1)

\* next_inputs of process_pipelines: "for res in results" from position i on
RECURSIVE NextInputs(_, _, _)
NextInputs(stage, results, i) ==
    IF i > Len(results)
    THEN <<>>
    ELSE (IF validate_output(stage, results[i]).valid
          THEN <<build_input_for_stage(stage + 1, results[i], None)>>
          ELSE <<>>) \o NextInputs(stage, results, i + 1)

----------------------------------------------------------------------------
(* Scheduler *)

\* (mutant) the age of the row, from the time it was added
TimedOutSinceCreation(job, t) == t - job.created_at > JOB_TIMEOUT_SECONDS

\* (datetime.utcnow() - job.updated_at).total_seconds() > JOB_TIMEOUT_SECONDS
TimedOut(job, t) == t - job.updated_at > JOB_TIMEOUT_SECONDS

\* (mutant) an error of the poll is reported as a failed remote job
get_job_status_error_as_failed(context, handle, state) ==
    IF context = <<>> THEN "ValueError"
    ELSE IF handle = NoHandle \/ state = "UNKNOWN" THEN "JOB_STATE_FAILED"
    ELSE state

\* VertexHandler.get_job_status(handle): _init_client needs the handler's
\* project context and raises ValueError without one.  With one, the state
\* the remote job is in; an exception of the lookup (no such job, network,
\* auth) is logged and "UNKNOWN" returned.  state is what the remote service
\* answers, "UNKNOWN" standing for a lookup that raises.
get_job_status(context, handle, state) ==
    IF context = <<>> THEN "ValueError"
    ELSE IF handle = NoHandle THEN "UNKNOWN"
    ELSE state

\* VertexHandler.submit_job called with nargs arguments for the job job_name:
\* a TypeError when they are not its parameters, a ValueError without a
\* project context, else the resource name of the created job or the error of
\* the remote call
VertexHandler_submit_job(context, nargs, job_name, accepted) ==
    IF nargs # SUBMIT_JOB_PARAMS
    THEN [handle |-> NoHandle, error |-> "TypeError"]
    ELSE IF context = <<>>
    THEN [handle |-> NoHandle, error |-> "ValueError"]
    ELSE IF ~accepted
    THEN [handle |-> NoHandle, error |-> ErrorOf(context[1])]
    ELSE [handle |-> <<"batchPredictionJobs", context[1], job_name>>, error |-> ""]

\* GCSHandler.read_batch_output: the items stored under the prefix, [] when
\* the bucket cannot be had
read_batch_output(pool, stored) ==
    IF get_active_project(pool) = <<>> \/ get_storage_client(pool) # "client"
    THEN <<>>
    ELSE stored

\* the context of the handler process_pipelines makes: VertexHandler()
SchedulerContext == <<>>

\* (mutant) the counter is raised on every failure
_handle_failure_unbounded(job, t, error_msg) ==
    Commit([job EXCEPT !.retry_count = @ + 1], t)

\* (mutant) the job fails once the counter is about to reach the ceiling
_handle_failure_early(job, t, error_msg) ==
    IF job.retry_count < MAX_RETRIES - 1
    THEN Commit([job EXCEPT !.retry_count = @ + 1], t)
    ELSE Commit([job EXCEPT !.status = "FAILED", !.last_error = error_msg], t)

\* (mutant) a failure moves the job back a stage
_handle_failure_restart(job, t, error_msg) ==
    IF job.retry_count < MAX_RETRIES
    THEN Commit([job EXCEPT !.retry_count = @ + 1, !.current_stage = @ - 1], t)
    ELSE Commit([job EXCEPT !.status = "FAILED", !.last_error = error_msg], t)

\* (mutant) no retry: any failure fails the job
_handle_failure_no_retry(job, t, error_msg) ==
    Commit([job EXCEPT !.status = "FAILED", !.last_error = error_msg], t)

\* a failure that also forgets the handle of the stage's remote job
_handle_failure_new_handle(job, t, error_msg) ==
    IF job.retry_count < MAX_RETRIES
    THEN Commit([job EXCEPT !.retry_count = @ + 1, !.vertex_job_name = NoHandle], t)
    ELSE Commit([job EXCEPT !.status = "FAILED", !.last_error = error_msg], t)

\* _handle_failure
_handle_failure(job, t, error_msg) ==
    IF job.retry_count < MAX_RETRIES
    THEN Commit([job EXCEPT !.retry_count = @ + 1], t)
    ELSE Commit([job EXCEPT !.status = "FAILED", !.last_error = error_msg], t)

\* what the loop body did with one row: the row after it, whether the remote
\* state was polled, the batches uploaded, the calls of vertex.submit_job, the
\* exception that left the loop, the calls of _handle_failure
RowOutcome(job, polled, batches, submits, raised, failures) ==
    [job |-> job, polled |-> polled, batches |-> batches, submits |-> submits,
     raised |-> raised, failures |-> failures]

\* what the services answer for one row: the state of its remote job, the
\* items under its output prefix, whether storage stores the next input, and
\* whether the remote service accepts the next submission
RowEnv(state, results, written, accepted) ==
    [state |-> state, results |-> results, written |-> written, accepted |-> accepted]
NoAnswer == RowEnv("", <<>>, TRUE, TRUE)

\* the body of "for job in jobs" for one row at time t
process_job(job, t, context, pool, env) ==
    LET state == get_job_status(context, job.vertex_job_name, env.state)
        results == read_batch_output(pool, env.results)
        next_stage == job.current_stage + 1
        next_inputs == NextInputs(job.current_stage, results, 1)
        up == upload_jsonl(pool, env.written)
        sub == VertexHandler_submit_job(context, SCHEDULER_SUBMIT_ARGS,
                                        <<"stage", next_stage>>, env.accepted)
    IN  IF TimedOut(job, t)
        THEN RowOutcome(Commit([job EXCEPT
                                   !.status = "FAILED",
                                   !.last_error =
                                       Msg("Timeout: Job stuck in RUNNING for too long",
                                           "", <<>>)], t),
                        FALSE, <<>>, 0, "", 0)
        ELSE IF state = "ValueError"
        THEN RowOutcome(job, FALSE, <<>>, 0, "ValueError", 0)
        ELSE IF state = "JOB_STATE_SUCCEEDED"
        THEN IF results = <<>>
             THEN RowOutcome(_handle_failure(job, t,
                                 Msg("No output files found in GCS", "", <<>>)),
                             TRUE, <<>>, 0, "", 1)
             ELSE IF next_stage > FINAL_STAGE
             THEN RowOutcome(Commit([job EXCEPT !.status = "COMPLETED",
                                                !.current_stage = FINAL_STAGE], t),
                             TRUE, <<>>, 0, "", 0)
             ELSE IF next_inputs = <<>>
             THEN RowOutcome(_handle_failure(job, t,
                                 Msg("All items failed validation", "", <<>>)),
                             TRUE, <<>>, 0, "", 1)
             ELSE IF up.error # ""
             THEN RowOutcome(_handle_failure(job, t,
                                 Msg("Submission failed:", up.error, <<>>)),
                             TRUE, <<>>, 0, "", 1)
             ELSE IF sub.error # ""
             THEN RowOutcome(_handle_failure(job, t,
                                 Msg("Submission failed:", sub.error, <<>>)),
                             TRUE, <<next_inputs>>, 1, "", 1)
             ELSE RowOutcome(Commit([job EXCEPT !.vertex_job_name = sub.handle,
                                                !.current_stage = next_stage], t),
                             TRUE, <<next_inputs>>, 1, "", 0)
        ELSE IF state \in {"JOB_STATE_FAILED", "JOB_STATE_CANCELLED"}
        THEN RowOutcome(_handle_failure(job, t,
                            Msg("Vertex Job Failed with state", state, <<>>)),
                        TRUE, <<>>, 0, "", 1)
        ELSE RowOutcome(job, TRUE, <<>>, 0, "", 0)

\* "for job in jobs" from position i of the fetched rows on.  An exception
\* that leaves the body ends the sweep in the handler of "except Exception"
\* around the loop.  log keeps, row by row, the row as it was, the answers of
\* the services and what the body did.
RECURSIVE SweepFrom(_, _, _, _, _, _, _, _)
SweepFrom(js, rows, i, t, context, pool, envs, log) ==
    IF i > Len(rows)
    THEN [jobs |-> js, log |-> log]
    ELSE LET r == process_job(js[rows[i]], t, context, pool, envs[rows[i]])
             js1 == [js EXCEPT ![rows[i]] = r.job]
             log1 == Append(log, [row |-> rows[i], before |-> js[rows[i]],
                                  env |-> envs[rows[i]], did |-> r])
         IN  IF r.raised # ""
             THEN [jobs |-> js1, log |-> log1]
             ELSE SweepFrom(js1, rows, i + 1, t, context, pool, envs, log1)

\* the orders in which a query without ORDER BY can return the rows in S
Orders(S) ==
    {f \in [1..Cardinality(S) -> S] : \A i, k \in 1..Cardinality(S) : f[i] = f[k] => i = k}

\* (mutant) the query returns the rows of every status
FetchedUnfiltered(js) ==
    IF AtCeiling(RunningCount(js)) THEN {<<>>} ELSE Orders(DOMAIN js)

\* the rows process_pipelines fetches: none when it returns at the ceiling
\* check, before the query for the RUNNING rows
Fetched(js) ==
    IF AtCeiling(RunningCount(js)) THEN {<<>>} ELSE Orders(RunningJobs(js))

\* process_pipelines on the table js at time t, rows being the RUNNING rows
\* as the query returned them and context the context of its VertexHandler
Sweep(js, rows, pool, t, context, envs) ==
    IF AtCeiling(RunningCount(js))
    THEN [jobs |-> js, log |-> <<>>]
    ELSE IF get_active_project(pool) = <<>>
    THEN [jobs |-> js, log |-> <<>>]
    ELSE SweepFrom(js, rows, 1, t, context, pool, envs, <<>>)

\* one run of the periodic job
process_pipelines ==
    /\ \E rows \in Fetched(jobs) :
          LET sw == Sweep(jobs, rows, project_pool, now, SchedulerContext,
                          [i \in DOMAIN jobs |-> NoAnswer])
              out == Outcome(sw.jobs, cooldown_until, now, 0, <<>>, "returned", NoMsg, "")
          IN  /\ jobs' = sw.jobs
              /\ last' = [Record("process_pipelines", 0, <<>>, {}, out) EXCEPT
                             !.sweep = sw.log]
    /\ UNCHANGED <<now, cooldown_until, project_pool, threads>>

\* time passes
Tick ==
    /\ \E t \in ClockPoints : t > now /\ now' = t
    /\ UNCHANGED <<cooldown_until, project_pool, jobs, last, threads>>

----------------------------------------------------------------------------
(* Specification *)

Pools == {SubSeq(AllProjects, 1, n) : n \in 0..MaxPool}

\* the rows the table holds when the service starts
SeedTables ==
    {[k \in 1..n |-> SeedJob(k, "A")] : n \in {0, MAX_CONCURRENT_JOBS - 1}}

NoCall ==
    [op |-> "", job |-> 0, t0 |-> 0, cd0 |-> 0, rc0 |-> 0, order |-> <<>>, ok |-> {},
     t1 |-> 0, uploads |-> 0, attempts |-> <<>>, result |-> "", error |-> NoMsg,
     ret |-> "", touched |-> {}, sweep |-> <<>>]

\* a request handler before it is entered
NoRequest ==
    [pc |-> "idle", row |-> 0, pool |-> <<>>, value |-> 0, error |-> "",
     snap |-> [taken |-> FALSE, mid |-> FALSE, old |-> <<>>, new |-> <<>>]]

\* no load_projects under way after the one of ConfigManager.__init__
NotLoading == [pc |-> "idle", todo |-> <<>>, old |-> <<>>, new |-> <<>>, count |-> 0]

\* no instance of the periodic job running
NoSweep == [instances |-> 0, skipped |-> FALSE]

\* nothing is under way
Quiet ==
    /\ calls = [c \in 1..MaxCalls |-> NoRequest]
    /\ loading = NotLoading
    /\ sched = NoSweep

Init ==
    /\ now = 0
    /\ cooldown_until = 0
    /\ project_pool \in Pools
    /\ jobs \in SeedTables
    /\ last = NoCall
    /\ Quiet

Next ==
    \/ submit_job
    \/ dispatch_chat
    \/ process_pipelines
    \/ Tick

Spec == Init /\ [][Next]_vars

----------------------------------------------------------------------------
(* The sweep with a handler that has a project context.  process_pipelines  *)
(* makes VertexHandler() without one, so its status poll raises and the     *)
(* code after the poll is never run.  Here the handler holds the context of *)
(* the active project ("Handlers use ConfigManager", scheduler.py:38) and   *)
(* everything else is process_pipelines as it is: the code after the poll,  *)
(* applied to what the remote services answer.                              *)

\* the states VertexHandler.get_job_status returns
RemoteStates ==
    {"JOB_STATE_RUNNING", "JOB_STATE_SUCCEEDED", "JOB_STATE_FAILED",
     "JOB_STATE_CANCELLED", "UNKNOWN"}

\* output items: a chapter, a refusal, and one without the envelope
Items ==
    {Item("c1", TRUE, <<"Chapter">>), Item("c2", TRUE, <<"As an AI", "Chapter">>),
     Item("c3", FALSE, <<>>)}

\* the outputs read_batch_output can find
Outputs == UNION {[1..n -> Items] : n \in 0..MaxItems}

\* the answers of the services for one row of a sweep at time t: none is
\* asked for when the sweep returns before its loop or the row is timed out,
\* the lookup of a job without a handle raises,
\* the output is read only of a job whose state is SUCCEEDED, and storage is
\* written only when a next input was built
RowEnvs(job, t, pool) ==
    IF get_active_project(pool) = <<>> \/ TimedOut(job, t)
    THEN {NoAnswer}
    ELSE IF job.vertex_job_name = NoHandle
    THEN {RowEnv("UNKNOWN", <<>>, TRUE, TRUE)}
    ELSE {RowEnv("JOB_STATE_SUCCEEDED", r, w, TRUE) :
              r \in Outputs, w \in BOOLEAN}
             \cup {RowEnv(st, <<>>, TRUE, TRUE) :
                      st \in RemoteStates \ {"JOB_STATE_SUCCEEDED"}}

\* the answers a sweep consumes: storage is written only when a next input
\* was built for a stage up to the last
Consumed(job, env) ==
    \/ env.written
    \/ /\ job.current_stage < FINAL_STAGE
       /\ NextInputs(job.current_stage, env.results, 1) # <<>>

\* the pools a sweep tells apart: none loaded, or a first project
SweepPools == {SubSeq(AllProjects, 1, n) : n \in 0..1}

\* a row an earlier run left RUNNING at stage k
StageJob(k) ==
    [SeedJob(1, "A") EXCEPT !.current_stage = k, !.vertex_job_name = HandleOf("A")]

\* a row the dispatcher left RUNNING on project p: the handle it recorded is
\* vertex_job_id, and the attributes the sweep works with are as they were
DispatchedJob(p) == SeedJob(1, p)

\* the tables a sweep with a handler in context starts on
StageTables ==
    {<<StageJob(k)>> : k \in 1..FINAL_STAGE} \cup {<<DispatchedJob("A")>>}

\* one run of the periodic job, its handler holding the active project
process_pipelines_in_context ==
    /\ \E rows \in Fetched(jobs),
          envs \in {f \in [RunningJobs(jobs) -> UNION {RowEnvs(jobs[i], now, project_pool) :
                                                        i \in RunningJobs(jobs)}] :
                       \A i \in RunningJobs(jobs) :
                           /\ f[i] \in RowEnvs(jobs[i], now, project_pool)
                           /\ Consumed(jobs[i], f[i])} :
          LET sw == Sweep(jobs, rows, project_pool, now,
                          get_active_project(project_pool), envs)
              out == Outcome(sw.jobs, cooldown_until, now, 0, <<>>, "returned", NoMsg, "")
          IN  /\ jobs' = sw.jobs
              /\ last' = [Record("process_pipelines_in_context", 0, <<>>, {}, out)
                             EXCEPT !.sweep = sw.log]
    /\ UNCHANGED <<now, cooldown_until, project_pool, threads>>

InitInContext ==
    /\ now = 0
    /\ cooldown_until = 0
    /\ project_pool \in SweepPools
    /\ jobs \in StageTables
    /\ last = NoCall
    /\ Quiet

NextInContext ==
    \/ process_pipelines_in_context
    \/ Tick

SpecInContext == InitInContext /\ [][NextInContext]_vars

----------------------------------------------------------------------------
(* The service started on a table that holds more RUNNING rows than         *)
(* MAX_CONCURRENT_JOBS: the table is kept in the database across runs and   *)
(* the ceiling is a setting read from the environment.                      *)

InitOverCeiling ==
    /\ now = 0
    /\ cooldown_until = 0
    /\ project_pool \in Pools
    /\ jobs = [k \in 1..(MAX_CONCURRENT_JOBS + 1) |-> SeedJob(k, "A")]
    /\ last = NoCall
    /\ Quiet

SpecOverCeiling == InitOverCeiling /\ [][Next]_vars

\* the same with the periodic job run again and again (the interval trigger
\* of start_scheduler fires every minute) and time passing
SpecOverCeilingFair ==
    SpecOverCeiling /\ WF_vars(process_pipelines) /\ WF_vars(Tick)

----------------------------------------------------------------------------
(* The handlers side by side.  The endpoints are plain functions, which the *)
(* server runs on a pool of threads, and the periodic job runs on the       *)
(* scheduler's own thread: a handler is a sequence of steps, one for every  *)
(* read or write of the shared state (the table, cooldown_until, the pool), *)
(* and the steps of different handlers interleave.                          *)

\* main.submit_job: db.add(new_job); db.commit().  The handlers are numbered
\* in the order they are entered.
submit_job_add(c) ==
    /\ calls[c].pc = "idle"
    /\ \A b \in 1..(c - 1) : calls[b].pc # "idle"
    /\ jobs' = Append(jobs, BatchJob(<<"api", Len(jobs) + 1>>, now))
    /\ calls' = [calls EXCEPT ![c] = [@ EXCEPT !.pc = "added", !.row = Len(jobs) + 1]]
    /\ UNCHANGED <<now, cooldown_until, project_pool, last, loading, sched>>

\* Dispatcher.submit_job, "1. Global Cooldown Check" and the ceiling
submit_job_admit(c) ==
    /\ calls[c].pc = "added"
    /\ LET j == calls[c].row
       IN  IF InCooldown(now, cooldown_until)
           THEN /\ jobs' = FailJob(jobs, j, now,
                                   Msg("System in cooldown (60s). Retry in", "",
                                       <<Remaining(now, cooldown_until)>>))
                /\ calls' = [calls EXCEPT ![c].pc = "done"]
           ELSE IF AtCeiling(RunningCount(jobs))
           THEN /\ jobs' = FailJob(jobs, j, now, Msg("Max concurrent jobs reached", "", <<>>))
                /\ calls' = [calls EXCEPT ![c].pc = "done"]
           ELSE /\ jobs' = jobs
                /\ calls' = [calls EXCEPT ![c].pc = "admitted"]
    /\ UNCHANGED <<now, cooldown_until, project_pool, last, loading, sched>>

\* Dispatcher.submit_job, "2. Upload to GCS (Once)"
submit_job_upload(c) ==
    /\ calls[c].pc = "admitted"
    /\ \E written \in BOOLEAN :
          LET j == calls[c].row
              up == upload_jsonl(project_pool, written)
          IN  IF up.error # ""
              THEN /\ jobs' = FailJob(jobs, j, now, Msg("GCS Upload Failed", up.error, <<>>))
                   /\ calls' = [calls EXCEPT ![c].pc = "done"]
              ELSE /\ jobs' = [jobs EXCEPT ![j] = Commit([@ EXCEPT !.input_gcs_uri = up.uri],
                                                         now)]
                   /\ calls' = [calls EXCEPT ![c].pc = "uploaded"]
    /\ UNCHANGED <<now, cooldown_until, project_pool, last, loading, sched>>

\* Dispatcher.submit_job, pool = config_manager.project_pool.copy(): the list
\* as it is at this moment, whatever load_projects has done to it so far
submit_job_copy_pool(c) ==
    /\ calls[c].pc = "uploaded"
    /\ LET j == calls[c].row
           snap == [taken |-> TRUE, mid |-> loading.pc = "loading",
                    old |-> loading.old, new |-> loading.new]
       IN  IF project_pool = <<>>
           THEN /\ jobs' = FailJob(jobs, j, now, Msg("No active projects loaded.", "", <<>>))
                /\ calls' = [calls EXCEPT ![c] = [@ EXCEPT !.pc = "done", !.snap = snap]]
           ELSE /\ jobs' = jobs
                /\ calls' = [calls EXCEPT ![c] = [@ EXCEPT !.pc = "copied",
                                                           !.pool = project_pool,
                                                           !.snap = snap]]
    /\ UNCHANGED <<now, cooldown_until, project_pool, last, loading, sched>>

\* Dispatcher.submit_job, the loop over the shuffled copy.  A success commits
\* the row RUNNING and returns; after the last failure the handler evaluates
\* time.time() + 60, the right-hand side of the assignment of "4. All Failed"
submit_job_traverse(c) ==
    /\ calls[c].pc = "copied"
    /\ \E order \in Shuffles(calls[c].pool), ok \in SUBSET Range(calls[c].pool) :
          LET j == calls[c].row
              f == Failover(order, ok, 1, NoAttempt)
          IN  IF f.winner # ""
              THEN /\ jobs' = [jobs EXCEPT ![j] =
                                  Commit([@ EXCEPT !.status = "RUNNING",
                                                   !.used_project_id = f.winner,
                                                   !.vertex_job_id = HandleOf(f.winner),
                                                   !.output_gcs_uri = "gs://bucket/output/"],
                                         now)]
                   /\ calls' = [calls EXCEPT ![c].pc = "done"]
              ELSE /\ jobs' = jobs
                   /\ calls' = [calls EXCEPT ![c] = [@ EXCEPT !.pc = "tripping",
                                                              !.value = TripCooldown(now),
                                                              !.error = f.last_error]]
    /\ UNCHANGED <<now, cooldown_until, project_pool, last, loading, sched>>

\* Dispatcher.submit_job, "4. All Failed": the value is stored in
\* self.cooldown_until, no lock held, and the row committed FAILED
submit_job_trip(c) ==
    /\ calls[c].pc = "tripping"
    /\ cooldown_until' = calls[c].value
    /\ jobs' = FailJob(jobs, calls[c].row, now,
                       Msg("All projects failed",
                           IF calls[c].error # "" THEN calls[c].error ELSE "Unknown error",
                           <<>>))
    /\ calls' = [calls EXCEPT ![c].pc = "done"]
    /\ UNCHANGED <<now, project_pool, last, loading, sched>>

\* ConfigManager.load_projects entered while the service runs, keys being the
\* projects of the key files it will accept: the pool is emptied first
load_projects_reset ==
    /\ loading.pc = "idle"
    /\ loading.count < MaxReloads
    /\ \E keys \in Pools :
          /\ project_pool' = <<>>
          /\ loading' = IF keys = <<>>
                         THEN [NotLoading EXCEPT !.count = loading.count + 1]
                         ELSE [pc |-> "loading", todo |-> keys, old |-> project_pool,
                               new |-> keys, count |-> loading.count + 1]
    /\ UNCHANGED <<now, cooldown_until, jobs, last, calls, sched>>

\* ConfigManager.load_projects, one turn of its loop:
\* self.project_pool.append(project_context)
load_projects_append ==
    /\ loading.pc = "loading"
    /\ project_pool' = Append(project_pool, Head(loading.todo))
    /\ loading' = IF Tail(loading.todo) = <<>>
                   THEN [NotLoading EXCEPT !.count = loading.count]
                   ELSE [loading EXCEPT !.todo = Tail(@)]
    /\ UNCHANGED <<now, cooldown_until, jobs, last, calls, sched>>

\* the running instances of a job that add_job leaves at the scheduler's
\* default (no max_instances argument)
MAX_INSTANCES == 1

\* (mutant) the trigger starts an instance whatever is running
add_job_accepts_always(instances) == TRUE

\* the interval trigger starts an instance of the job only while fewer than
\* max_instances of it are running, and skips the run otherwise
add_job_accepts(instances) == instances < MAX_INSTANCES

\* the interval trigger of start_scheduler fires
process_pipelines_fires ==
    /\ sched.instances < MaxSweeps
    /\ sched' = IF add_job_accepts(sched.instances)
                THEN [sched EXCEPT !.instances = @ + 1]
                ELSE [sched EXCEPT !.skipped = TRUE]
    /\ UNCHANGED <<now, cooldown_until, project_pool, jobs, last, calls, loading>>

\* a running instance of process_pipelines does its work and returns
process_pipelines_returns ==
    /\ sched.instances > 0
    /\ \E rows \in Fetched(jobs) :
          jobs' = Sweep(jobs, rows, project_pool, now, SchedulerContext,
                        [i \in DOMAIN jobs |-> NoAnswer]).jobs
    /\ sched' = [sched EXCEPT !.instances = @ - 1]
    /\ UNCHANGED <<now, cooldown_until, project_pool, last, calls, loading>>

InitConcurrent ==
    /\ now = 0
    /\ cooldown_until = 0
    /\ project_pool \in Pools
    /\ jobs = <<>>
    /\ last = NoCall
    /\ Quiet

NextConcurrent ==
    \/ \E c \in 1..MaxCalls :
          \/ submit_job_add(c)
          \/ submit_job_admit(c)
          \/ submit_job_upload(c)
          \/ submit_job_copy_pool(c)
          \/ submit_job_traverse(c)
          \/ submit_job_trip(c)
    \/ load_projects_reset
    \/ load_projects_append
    \/ process_pipelines_fires
    \/ process_pipelines_returns
    \/ Tick

SpecConcurrent == InitConcurrent /\ [][NextConcurrent]_vars

\* a table that already holds one RUNNING job less than the ceiling
InitNearCeiling ==
    /\ now = 0
    /\ cooldown_until = 0
    /\ project_pool \in Pools
    /\ jobs = [k \in 1..(MAX_CONCURRENT_JOBS - 1) |-> SeedJob(k, "A")]
    /\ last = NoCall
    /\ Quiet

\* /api/submit handlers side by side, with time passing; no sweep and no
\* reload takes a step
NextSubmitters ==
    \/ \E c \in 1..MaxCalls :
          \/ submit_job_add(c)
          \/ submit_job_admit(c)
          \/ submit_job_upload(c)
          \/ submit_job_copy_pool(c)
          \/ submit_job_traverse(c)
          \/ submit_job_trip(c)
    \/ Tick

SpecNearCeiling == InitNearCeiling /\ [][NextSubmitters]_vars

----------------------------------------------------------------------------
(* The functions of the pool and of the pipeline logic, applied to inputs   *)
(* drawn from bounded sets: "last" holds the call and what it returned.     *)

\* the project ids a key file can name: real projects, none, an AI Studio key
KeyIds == {"A", "B", "", "gen-lang-client-1"}

\* what load_projects gets out of a key file: whether json.load reads it, the
\* project_id it names and whether from_service_account_info accepts it
KeyData ==
    {[readable |-> FALSE, project_id |-> "", credentials |-> FALSE]}
        \cup [readable : {TRUE}, project_id : KeyIds, credentials : BOOLEAN]

\* the key files _discover_key_files returns, sorted by path: the file at
\* position i has path i
KeyFiles == UNION {[1..n -> KeyData] : n \in 0..MaxFiles}

\* "gen-lang-client" in project_id
IsAiStudioKey(project_id) == project_id = "gen-lang-client-1"

NoProjects == [pool |-> <<>>, map |-> <<>>]

\* (mutant) a later key file of a project replaces the earlier one in the map
load_key_last_wins(acc, key_path, key_data) ==
    IF ~key_data.readable \/ key_data.project_id = ""
       \/ IsAiStudioKey(key_data.project_id) \/ ~key_data.credentials
    THEN acc
    ELSE LET project_context == [project_id |-> key_data.project_id,
                                 key_path |-> key_path]
         IN  [pool |-> IF key_data.project_id \in DOMAIN acc.map THEN acc.pool
                       ELSE Append(acc.pool, project_context),
              map |-> (key_data.project_id :> project_context) @@ acc.map]

\* load_projects, the body of "for key_path in key_files": a file that cannot
\* be read, names no project, names one already in project_map, is an AI
\* Studio key or whose credentials raise is skipped; otherwise its context is
\* appended to project_pool and entered in project_map
load_key(acc, key_path, key_data) ==
    IF ~key_data.readable THEN acc
    ELSE IF key_data.project_id = "" THEN acc
    ELSE IF key_data.project_id \in DOMAIN acc.map THEN acc
    ELSE IF IsAiStudioKey(key_data.project_id) THEN acc
    ELSE IF ~key_data.credentials THEN acc
    ELSE LET project_context == [project_id |-> key_data.project_id,
                                 key_path |-> key_path]
         IN  [pool |-> Append(acc.pool, project_context),
              map |-> (key_data.project_id :> project_context) @@ acc.map]

\* ConfigManager.load_projects over the key files from position i on
RECURSIVE load_projects(_, _, _)
load_projects(key_files, i, acc) ==
    IF i > Len(key_files) THEN acc
    ELSE load_projects(key_files, i + 1, load_key(acc, i, key_files[i]))

\* (mutant) the first project whatever the draw
get_random_project_first(pool, r) == IF pool = <<>> THEN None ELSE pool[1]

\* ConfigManager.get_random_project; r is the position random.choice draws
get_random_project(pool, r) == IF pool = <<>> THEN None ELSE pool[r]

\* a load of the pool: ConfigManager.__init__ or a reload
call_load_projects ==
    /\ \E key_files \in KeyFiles :
          LET loaded == load_projects(key_files, 1, NoProjects)
          IN  /\ project_pool' = [k \in DOMAIN loaded.pool |-> loaded.pool[k].project_id]
              /\ last' = [op |-> "load_projects", key_files |-> key_files,
                          pool |-> loaded.pool, map |-> loaded.map,
                          result |-> "returned"]
    /\ UNCHANGED <<now, cooldown_until, jobs, threads>>

\* get_random_project on the pool of the last load
call_get_random_project ==
    /\ last.op = "load_projects"
    /\ \E r \in IF last.pool = <<>> THEN {0} ELSE DOMAIN last.pool :
          last' = [op |-> "get_random_project", pool |-> last.pool, r |-> r,
                   ret |-> get_random_project(last.pool, r), result |-> "returned"]
    /\ UNCHANGED <<now, cooldown_until, project_pool, jobs, threads>>

\* the phrases of a generated text
Phrases == {"Chapter", "I cannot", "As an AI"}

\* the output items the functions of the pipeline are applied to: with or
\* without the envelope, the text empty or of up to MaxItems phrases
OutputItems ==
    {Item(c, shaped, text) :
        c \in {"c1", "c2"}, shaped \in BOOLEAN,
        text \in UNION {[1..n -> Phrases] : n \in 0..MaxItems}}

\* the bodies of POST /api/submit: with a topic or not, with an "id" of the
\* caller's or not
Requests ==
    {[topic |-> "T"], [other |-> "x"], [topic |-> "T", id |-> "caller"]}

\* PipelineLogic.validate_output on an output item
call_validate_output ==
    /\ \E stage_num \in 1..FINAL_STAGE, output_item \in OutputItems :
          last' = [op |-> "validate_output", stage |-> stage_num, item |-> output_item,
                   ret |-> validate_output(stage_num, output_item),
                   result |-> "returned"]
    /\ UNCHANGED <<now, cooldown_until, project_pool, jobs, threads>>

\* Dispatcher.submit_job builds the stage-1 item of job job_uuid
call_build_stage_1 ==
    /\ \E request_data \in Requests, job_uuid \in {"j1", "j2"} :
          last' = [op |-> "build_stage_1", request_data |-> request_data,
                   job_uuid |-> job_uuid,
                   ret |-> build_input_for_stage(1, None, WithId(request_data, job_uuid)),
                   result |-> "returned"]
    /\ UNCHANGED <<now, cooldown_until, project_pool, jobs, threads>>

\* process_pipelines builds the item of the next stage from an output item
call_build_next_stage ==
    /\ \E stage_num \in 2..FINAL_STAGE, previous_output \in OutputItems :
          last' = [op |-> "build_next_stage", stage |-> stage_num,
                   item |-> previous_output,
                   ret |-> build_input_for_stage(stage_num, previous_output, None),
                   result |-> "returned"]
    /\ UNCHANGED <<now, cooldown_until, project_pool, jobs, threads>>

InitFunctions ==
    /\ now = 0
    /\ cooldown_until = 0
    /\ project_pool = <<>>
    /\ jobs = <<>>
    /\ last = [op |-> ""]
    /\ Quiet

NextFunctions ==
    \/ call_load_projects
    \/ call_get_random_project
    \/ call_validate_output
    \/ call_build_stage_1
    \/ call_build_next_stage

SpecFunctions == InitFunctions /\ [][NextFunctions]_vars

----------------------------------------------------------------------------
(* Claims *)

Terminal(status) == status \in {"FAILED", "COMPLETED", "SUCCEEDED"}

LastIsDispatch == last.op \in {"submit_job", "dispatch_chat"}

CooldownKinds == {"System in cooldown (60s). Retry in", "System in cooldown."}

\* the position of the first candidate of the traversal whose call succeeds
FirstOk(order, ok) ==
    CHOOSE i \in 1..Len(order) : order[i] \in ok /\ \A k \in 1..(i - 1) : order[k] \notin ok

\* the last call tried candidates and every one of them failed
LastExhausted == last.attempts # <<>> /\ Range(last.attempts) \cap last.ok = {}

\* C1: a submit_job or dispatch_chat call that starts while now < cooldown_until
\* (the cooldown only an exhausted pool sets) raises a cooldown error and calls
\* no credential.
C1_CooldownRejects ==
    (LastIsDispatch /\ last.t0 < last.cd0) =>
        /\ last.result = "raised"
        /\ last.error.kind \in CooldownKinds
        /\ last.attempts = <<>>

C1_Witness ==
    /\ last.op = "submit_job"
    /\ last.t0 < last.cd0
    /\ last.result = "raised"
    /\ project_pool # <<>>

\* C2: when submit_job tries the candidates of a non-empty pool and every
\* submission fails, the job is FAILED with a summary holding the error of the
\* last candidate tried, cooldown_until is the time of exhaustion plus 60, the
\* call raises, and each pool member was tried exactly once.
C2_ExhaustionFailsJob ==
    (last.op = "submit_job" /\ LastExhausted) =>
        /\ jobs[last.job].status = "FAILED"
        /\ jobs[last.job].result_summary.kind = "All projects failed"
        /\ jobs[last.job].result_summary.cause =
               ErrorOf(last.attempts[Len(last.attempts)])
        /\ cooldown_until = last.t1 + 60
        /\ last.result = "raised"
        /\ last.error = jobs[last.job].result_summary
        /\ Len(last.attempts) = Len(project_pool)
        /\ Range(last.attempts) = Range(project_pool)

C2_Witness ==
    /\ last.op = "submit_job"
    /\ LastExhausted
    /\ Len(last.attempts) = 2
    /\ last.t1 > last.t0

\* C3: when submit_job traverses a pool in which some candidate's submission
\* succeeds, it returns, the job is RUNNING with the identifier and the handle
\* of the first candidate in traversal order that succeeded, and no candidate
\* after that one is tried.
C3_FirstSuccessWins ==
    (last.op = "submit_job" /\ last.attempts # <<>>
        /\ Range(last.order) \cap last.ok # {}) =>
        LET i == FirstOk(last.order, last.ok)
        IN  /\ last.result = "returned"
            /\ jobs[last.job].status = "RUNNING"
            /\ jobs[last.job].used_project_id = last.order[i]
            /\ jobs[last.job].vertex_job_id = HandleOf(last.order[i])
            /\ last.attempts = SubSeq(last.order, 1, i)

C3_Witness ==
    /\ last.op = "submit_job"
    /\ Len(last.order) = 2
    /\ last.ok = Range(last.order)
    /\ jobs[last.job].status = "RUNNING"
    /\ Len(last.attempts) = 1

\* C4: a submit_job call that reaches the candidates uploads the stage-1 input
\* once, however many candidates it tries; no call uploads more than once.
C4_OneUpload ==
    (last.op = "submit_job") =>
        /\ last.uploads <= 1
        /\ last.attempts # <<>> => last.uploads = 1

C4_Witness ==
    /\ last.op = "submit_job"
    /\ Len(last.attempts) = 2
    /\ last.uploads = 1
    /\ jobs[last.job].status = "RUNNING"

\* C5: a submit_job call made while MAX_CONCURRENT_JOBS or more jobs are
\* RUNNING marks the job FAILED with a reason and raises, with no upload and
\* no remote submission.
C5_CeilingRejects ==
    (last.op = "submit_job" /\ last.rc0 >= MAX_CONCURRENT_JOBS) =>
        /\ jobs[last.job].status = "FAILED"
        /\ jobs[last.job].result_summary # NoMsg
        /\ last.result = "raised"
        /\ last.uploads = 0
        /\ last.attempts = <<>>

C5_Witness ==
    /\ last.op = "submit_job"
    /\ last.rc0 >= MAX_CONCURRENT_JOBS
    /\ last.error.kind = "Max concurrent jobs reached"
    /\ project_pool # <<>>

\* C6: every dispatch request rejected for cooldown, submit_job or
\* dispatch_chat, gets a cooldown error carrying the seconds that remain until
\* cooldown_until.
C6_CooldownErrorCarriesRemaining ==
    (LastIsDispatch /\ last.error.kind \in CooldownKinds) =>
        last.error.seconds = <<last.cd0 - last.t0>>

\* C7: only exhausting the pool trips the cooldown: a dispatch call that is
\* rejected at admission, finds the pool empty, fails at upload, or succeeds
\* after some candidates failed leaves cooldown_until as it was.
C7_OnlyExhaustionTrips ==
    (LastIsDispatch /\ ~LastExhausted) => cooldown_until = last.cd0

C7_Witness ==
    /\ last.op = "submit_job"
    /\ Len(last.attempts) = 2
    /\ last.result = "returned"
    /\ last.cd0 > 0
    /\ cooldown_until = last.cd0

\* C8: with an empty pool submit_job marks the job FAILED and raises, and
\* makes no remote submission.
C8_EmptyPoolFails ==
    (last.op = "submit_job" /\ project_pool = <<>>) =>
        /\ jobs[last.job].status = "FAILED"
        /\ jobs[last.job].result_summary # NoMsg
        /\ last.result = "raised"
        /\ last.attempts = <<>>

C8_Witness ==
    /\ last.op = "submit_job"
    /\ project_pool = <<>>
    /\ ~(last.t0 < last.cd0)
    /\ last.rc0 < MAX_CONCURRENT_JOBS
    /\ jobs[last.job].status = "FAILED"

\* C9: dispatch_chat returns the result of the first candidate in traversal
\* order whose chat call succeeds and tries none after it; when every candidate
\* fails it raises and sets cooldown_until, the one submit_job checks, to the
\* time of exhaustion plus 60, so a submit_job inside the window is rejected
\* for cooldown.
C9_ChatFailover ==
    /\ (last.op = "dispatch_chat" /\ last.attempts # <<>>
           /\ Range(last.order) \cap last.ok # {}) =>
           LET i == FirstOk(last.order, last.ok)
           IN  /\ last.result = "returned"
               /\ last.ret = last.order[i]
               /\ last.attempts = SubSeq(last.order, 1, i)
    /\ (last.op = "dispatch_chat" /\ LastExhausted) =>
           /\ last.result = "raised"
           /\ last.attempts = last.order
           /\ cooldown_until = last.t1 + 60
    /\ (last.op = "submit_job" /\ last.t0 < last.cd0) =>
           /\ jobs[last.job].status = "FAILED"
           /\ jobs[last.job].result_summary.kind \in CooldownKinds

\* the first job ever submitted is rejected for cooldown: only dispatch_chat
\* can have tripped it
C9_Witness ==
    /\ last.op = "submit_job"
    /\ Len(jobs) = 1
    /\ last.t0 > 0
    /\ last.t0 < last.cd0
    /\ jobs[1].result_summary.kind \in CooldownKinds

\* C10: a sweep of the scheduler changes no row whose status is terminal
\* (FAILED, COMPLETED, SUCCEEDED).
C10_SweepLeavesTerminal ==
    [][process_pipelines =>
          \A i \in DOMAIN jobs : Terminal(jobs[i].status) => jobs'[i] = jobs[i]]_vars

\* a sweep failed some row and left alone a row the dispatcher had failed,
\* old enough to be timed out
C10_Witness ==
    /\ last.op = "process_pipelines"
    /\ last.touched # {}
    /\ \E i \in DOMAIN jobs :
          /\ i \notin last.touched
          /\ jobs[i].status = "FAILED"
          /\ jobs[i].result_summary # NoMsg
          /\ TimedOut(jobs[i], now)

\* the rows a sweep ran its loop body on
Swept(l) == {l.sweep[k].row : k \in 1..Len(l.sweep)}

TimeoutReason == "Timeout: Job stuck in RUNNING for too long"

\* C11: a sweep fails, with a timeout reason, every job that is RUNNING and
\* was last updated more than JOB_TIMEOUT_SECONDS ago when the sweep starts,
\* however many jobs are RUNNING.  Stated for the sweeps that start with a
\* project loaded and all their RUNNING jobs that old.
C11_TimedOutJobsFail ==
    [][(/\ process_pipelines
        /\ project_pool # <<>>
        /\ \A i \in RunningJobs(jobs) : TimedOut(jobs[i], now)) =>
          \A i \in RunningJobs(jobs) :
              /\ jobs'[i].status = "FAILED"
              /\ jobs'[i].last_error.kind = TimeoutReason]_vars

\* C12: a sweep that starts with more RUNNING jobs than MAX_CONCURRENT_JOBS
\* still runs its loop body on every RUNNING job.
C12_OverCeilingStillProcessed ==
    [][(/\ process_pipelines
        /\ project_pool # <<>>
        /\ RunningCount(jobs) > MAX_CONCURRENT_JOBS) =>
          Swept(last') = RunningJobs(jobs)]_vars

\* the log of the last step, when it was a sweep with a handler in context
Log == IF last.op = "process_pipelines_in_context" THEN last.sweep ELSE <<>>

\* the log entries in which the body called _handle_failure
FailureEntries == {k \in DOMAIN Log : Log[k].did.failures > 0}

\* C13: retry_count stays within 0..3, and a stage failure handled when it is
\* 3 sets the job FAILED.
C13_RetryBounded ==
    /\ \A i \in DOMAIN jobs : jobs[i].retry_count \in 0..MAX_RETRIES
    /\ \A k \in FailureEntries :
          Log[k].before.retry_count >= MAX_RETRIES => Log[k].did.job.status = "FAILED"

\* a stage failure found the counter at the ceiling
C13_Witness ==
    \E k \in FailureEntries :
        /\ Log[k].before.retry_count = MAX_RETRIES
        /\ jobs[Log[k].row].status = "FAILED"
        /\ jobs[Log[k].row].retry_count = MAX_RETRIES

C15_StageMonotonic ==
    [][\A i \in DOMAIN jobs :
          (jobs[i].status = "RUNNING" /\ jobs'[i].status = "RUNNING") =>
              jobs'[i].current_stage >= jobs[i].current_stage]_vars

\* a sweep met a resubmission error and the job is RUNNING at its stage
C15_Witness ==
    \E k \in FailureEntries :
        /\ Log[k].did.submits = 1
        /\ jobs[Log[k].row].status = "RUNNING"
        /\ jobs[Log[k].row].current_stage = Log[k].before.current_stage
        /\ jobs[Log[k].row].current_stage > 1

\* the items of results that pass validate_output at the stage
ValidItems(stage, results) ==
    {k \in DOMAIN results : validate_output(stage, results[k]).valid}

\* C16: a job at stage k < 7 whose remote state is SUCCEEDED and whose
\* outputs all pass validation (the next input being stored) leaves the
\* sweep RUNNING at stage k + 1 with a new remote handle.
C16_StageAdvances ==
    \A k \in DOMAIN Log :
        LET e == Log[k]
        IN  (/\ e.did.polled
             /\ e.before.current_stage < FINAL_STAGE
             /\ e.env.state = "JOB_STATE_SUCCEEDED"
             /\ e.env.results # <<>>
             /\ ValidItems(e.before.current_stage, e.env.results) = DOMAIN e.env.results
             /\ e.env.written) =>
                /\ e.did.job.status = "RUNNING"
                /\ e.did.job.current_stage = e.before.current_stage + 1
                /\ e.did.job.vertex_job_name # e.before.vertex_job_name

\* C17: a job at stage 7 whose remote state is observed SUCCEEDED is
\* COMPLETED by the sweep, with no remote submission.
C17_FinalStageCompletes ==
    \A k \in DOMAIN Log :
        LET e == Log[k]
        IN  (/\ e.did.polled
             /\ e.before.current_stage = FINAL_STAGE
             /\ e.env.state = "JOB_STATE_SUCCEEDED") =>
                /\ e.did.job.status = "COMPLETED"
                /\ e.did.submits = 0

\* C18: the sweep calls vertex.submit_job for the next stage of a job only
\* when it has polled the job's remote state as SUCCEEDED and at least one
\* item of the stage's output passed validate_output.
C18_SubmitAfterValidation ==
    \A k \in DOMAIN Log :
        LET e == Log[k]
        IN  e.did.submits > 0 =>
                /\ e.did.polled
                /\ e.env.state = "JOB_STATE_SUCCEEDED"
                /\ ValidItems(e.before.current_stage, e.env.results) # {}
                /\ e.did.submits = 1

\* a sweep called vertex.submit_job for stage 3 of a job
C18_Witness ==
    \E k \in DOMAIN Log :
        /\ Log[k].did.submits = 1
        /\ Log[k].before.current_stage = 2
        /\ Len(Log[k].env.results) = 2
        /\ Cardinality(ValidItems(2, Log[k].env.results)) = 1

\* the items of results that pass validation, in the order of results
RECURSIVE ValidSeq(_, _, _)
ValidSeq(stage, results, i) ==
    IF i > Len(results) THEN <<>>
    ELSE (IF i \in ValidItems(stage, results) THEN <<results[i]>> ELSE <<>>)
             \o ValidSeq(stage, results, i + 1)

\* C19: the batch uploaded for the next stage has one item for each output
\* item that passed validate_output, in their order and with their custom_id,
\* and none for the others.
C19_BatchOfValidItems ==
    \A k \in DOMAIN Log :
        LET e == Log[k]
            stage == e.before.current_stage
            valid == ValidSeq(stage, e.env.results, 1)
        IN  /\ Len(e.did.batches) <= 1
            /\ e.did.batches # <<>> =>
                  /\ Len(e.did.batches[1]) = Cardinality(ValidItems(stage, e.env.results))
                  /\ e.did.batches[1] =
                         [n \in 1..Len(valid) |-> build_input_for_stage(stage + 1, valid[n], None)]

\* two items came back, the first a refusal: the batch holds the second only
C19_Witness ==
    \E k \in DOMAIN Log :
        /\ Len(Log[k].env.results) = MaxItems
        /\ ValidItems(Log[k].before.current_stage, Log[k].env.results) = {MaxItems}
        /\ Len(Log[k].did.batches) = 1
        /\ Len(Log[k].did.batches[1]) = 1
        /\ Log[k].did.batches[1][1].custom_id = Log[k].env.results[MaxItems].custom_id

\* the entry is one stage failure: one call of _handle_failure, which counts
\* one retry and leaves the job RUNNING below the ceiling and sets it FAILED
\* otherwise; stage and remote handle as before
OneStageFailure(e) ==
    /\ e.did.failures = 1
    /\ IF e.before.retry_count < MAX_RETRIES
       THEN /\ e.did.job.status = "RUNNING"
            /\ e.did.job.retry_count = e.before.retry_count + 1
       ELSE /\ e.did.job.status = "FAILED"
            /\ e.did.job.retry_count = e.before.retry_count
    /\ e.did.job.current_stage = e.before.current_stage
    /\ e.did.job.vertex_job_name = e.before.vertex_job_name

\* the remote state polled for the entry is FAILED or CANCELLED
ExternalFailure(e) ==
    e.did.polled /\ e.env.state \in {"JOB_STATE_FAILED", "JOB_STATE_CANCELLED"}

\* the remote state polled is SUCCEEDED and no output item passes validation
NothingValid(e) ==
    /\ e.did.polled
    /\ e.env.state = "JOB_STATE_SUCCEEDED"
    /\ ValidItems(e.before.current_stage, e.env.results) = {}

PollErrors == {k \in DOMAIN Log : Log[k].did.polled /\ Log[k].env.state = "UNKNOWN"}

\* C21: a sweep whose status poll of a job errors leaves the row as it was,
\* RUNNING, so that the next sweep fetches and polls it again.
C21_PollErrorLeavesJob ==
    \A k \in PollErrors :
        /\ Log[k].did.job = Log[k].before
        /\ jobs[Log[k].row] = Log[k].before
        /\ Log[k].row \in RunningJobs(jobs)
        /\ Log[k].did.failures = 0

\* the poll of a stage-3 job that had used a retry errored
C21_Witness ==
    \E k \in PollErrors :
        /\ Log[k].before.current_stage = 3
        /\ Log[k].before.retry_count = 1
        /\ Log[k].before.vertex_job_name # NoHandle
        /\ jobs[Log[k].row].retry_count = 1

\* the rows a sweep fetched: the RUNNING rows of the table it started on
FetchedBy(l) == l.rc0

\* C22: an exception raised while one job is handled does not end the sweep:
\* every RUNNING row the sweep fetched is still processed.
C22_ExceptionDoesNotAbortSweep ==
    (/\ last.op = "process_pipelines"
     /\ \E k \in DOMAIN last.sweep : last.sweep[k].did.raised # "")
        => Cardinality(Swept(last)) = FetchedBy(last)

\* a fetched row that cannot be polled: the project it is bound to is not in
\* the pool, or it carries no handle of a remote job
Unpollable(job, pool) ==
    \/ job.used_project_id \notin Range(pool)
    \/ job.vertex_job_name = NoHandle

\* C23: a sweep sets a RUNNING row that cannot be polled to FAILED with a
\* reason, without polling it and without using a retry.
C23_UnpollableJobsFail ==
    \A k \in DOMAIN Log :
        (/\ Unpollable(Log[k].before, project_pool)
         /\ ~TimedOut(Log[k].before, last.t0))
            => /\ Log[k].did.job.status = "FAILED"
               /\ Log[k].did.job.last_error # NoMsg
               /\ Log[k].did.job.retry_count = Log[k].before.retry_count
               /\ ~Log[k].did.polled

\* the errors of the external services a dispatch call met: the storage
\* service's at the upload, and one for every candidate that did not accept
ExternalErrors(l) ==
    (IF l.error.kind = "GCS Upload Failed" /\ l.error.cause = "storage error"
     THEN 1 ELSE 0)
    + Cardinality({i \in DOMAIN l.attempts : l.attempts[i] \notin l.ok})

\* C24: a job whose submission met its first error of an external service is
\* not left FAILED by the dispatcher.
C24_FirstExternalErrorNeverFails ==
    (last.op = "submit_job" /\ ExternalErrors(last) = 1)
        => jobs[last.job].status # "FAILED"

\* seconds since the row was added, and since it was last committed: the
\* writes that start a stage commit the row (dispatcher.py:91-95,
\* scheduler.py:92-95), so the second is at most the time since the stage began
Age(job, t) == t - job.created_at
SinceCommit(job, t) == t - job.updated_at

\* C28: a sweep does not fail for timeout a RUNNING row whose last commit is
\* at most JOB_TIMEOUT_SECONDS old, whatever the age of the row.
C28_TimeoutFromLastProgress ==
    \A k \in DOMAIN last.sweep :
        SinceCommit(last.sweep[k].before, last.t0) <= JOB_TIMEOUT_SECONDS
            => /\ last.sweep[k].did.job.status = "RUNNING"
               /\ last.sweep[k].did.job.last_error.kind # TimeoutReason

\* a row older than the ceiling that the dispatcher moved to RUNNING less than
\* the ceiling ago went through the timeout test of a sweep
C28_Witness ==
    \E k \in DOMAIN last.sweep :
        /\ last.op = "process_pipelines"
        /\ last.sweep[k].before.id[1] = "api"
        /\ Age(last.sweep[k].before, last.t0) > JOB_TIMEOUT_SECONDS
        /\ SinceCommit(last.sweep[k].before, last.t0) <= JOB_TIMEOUT_SECONDS
        /\ jobs[last.sweep[k].row].status = "RUNNING"

\* C30: the status read of a job that submit_job has just moved to RUNNING
\* reports a current stage, and the stage is at least 1.
C30_RunningJobReportsStage ==
    (last.op = "submit_job" /\ last.result = "returned"
        /\ jobs[last.job].status = "RUNNING")
        => LET stage == Get(api_get_job_status(jobs[last.job]), "current_stage")
           IN  stage.present /\ stage.value >= 1

C26_CooldownNeverDecreases == [][cooldown_until' >= cooldown_until]_vars

\* the pool a handler copied while load_projects was under way
CopiedMidReload(c) == calls[c].snap.taken /\ calls[c].snap.mid

DispatcherStep(c) == calls'[c] # calls[c]

\* the step is the work of a sweep
SchedulerStep == sched'.instances < sched.instances

\* in this step a row becomes COMPLETED only from stage 7
CompletedFromFinalStage ==
    \A i \in DOMAIN jobs :
        (jobs'[i].status = "COMPLETED" /\ jobs[i].status # "COMPLETED") =>
            jobs[i].status = "RUNNING" /\ jobs[i].current_stage = FINAL_STAGE

\* the same of every step; with a handler in context (SpecInContext) the
\* sweep does complete rows
CompletionsAtFinalStage == [][CompletedFromFinalStage]_vars

\* C29: a status changes from PENDING to RUNNING or FAILED, in a step of the
\* dispatch call the row belongs to, or from RUNNING to COMPLETED or FAILED,
\* in a step of the sweep; a sweep leaves the rows that are PENDING as they
\* are, a dispatch call leaves alone the rows that are not PENDING, and a row
\* becomes COMPLETED at stage 7 only.
C29_StatusTransitions ==
    [][/\ \A i \in DOMAIN jobs :
              jobs'[i].status # jobs[i].status =>
                  \/ /\ jobs[i].status = "PENDING"
                     /\ jobs'[i].status \in {"RUNNING", "FAILED"}
                     /\ \E c \in 1..MaxCalls : calls[c].row = i /\ DispatcherStep(c)
                  \/ /\ jobs[i].status = "RUNNING"
                     /\ jobs'[i].status \in {"COMPLETED", "FAILED"}
                     /\ SchedulerStep
       /\ SchedulerStep =>
              \A i \in DOMAIN jobs : jobs[i].status = "PENDING" => jobs'[i] = jobs[i]
       /\ (\E c \in 1..MaxCalls : DispatcherStep(c)) =>
              \A i \in DOMAIN jobs : jobs[i].status # "PENDING" => jobs'[i] = jobs[i]
       /\ \A i \in DOMAIN jobs' \ DOMAIN jobs : jobs'[i].status = "PENDING"
       /\ CompletedFromFinalStage]_vars

\* a sweep failed a row the dispatcher had moved to RUNNING while the row of
\* a dispatch call under way was PENDING, and that row is PENDING still
C29_Witness ==
    \E i \in DOMAIN jobs, c \in 1..MaxCalls :
        /\ jobs[i].status = "FAILED"
        /\ jobs[i].last_error.kind = TimeoutReason
        /\ jobs[i].used_project_id # ""
        /\ calls[c].pc \in {"added", "admitted", "uploaded", "copied", "tripping"}
        /\ jobs[calls[c].row].status = "PENDING"
        /\ jobs[calls[c].row].created_at < jobs[i].updated_at

\* a key file load_projects can make a context of
Usable(key_data) ==
    /\ key_data.readable
    /\ key_data.project_id # ""
    /\ ~IsAiStudioKey(key_data.project_id)
    /\ key_data.credentials

\* C31: after a load the project ids of project_pool are pairwise distinct,
\* the context kept for an id is the one of the first key file that yields a
\* context for it, project_map holds the ids of project_pool and maps each to
\* the context in the pool, and a load that finds no usable key file returns
\* with an empty pool.
C31_PoolAfterLoad ==
    last.op = "load_projects" =>
        LET pool == last.pool
            files == last.key_files
        IN  /\ \A i, k \in DOMAIN pool :
                   pool[i].project_id = pool[k].project_id => i = k
            /\ \A i \in DOMAIN pool :
                   LET f == pool[i].key_path
                   IN  /\ Usable(files[f])
                       /\ files[f].project_id = pool[i].project_id
                       /\ \A g \in 1..(f - 1) :
                              ~(Usable(files[g])
                                /\ files[g].project_id = pool[i].project_id)
            /\ \A f \in DOMAIN files :
                   Usable(files[f]) =>
                       \E i \in DOMAIN pool : pool[i].project_id = files[f].project_id
            /\ DOMAIN last.map = {pool[i].project_id : i \in DOMAIN pool}
            /\ \A i \in DOMAIN pool : last.map[pool[i].project_id] = pool[i]
            /\ last.result = "returned"
            /\ (\A f \in DOMAIN files : ~Usable(files[f])) => pool = <<>>

\* a load met two usable key files of one project and kept the first
C31_Witness ==
    /\ last.op = "load_projects"
    /\ \E f, g \in DOMAIN last.key_files :
          /\ f < g
          /\ Usable(last.key_files[f]) /\ Usable(last.key_files[g])
          /\ last.key_files[f].project_id = last.key_files[g].project_id
          /\ last.map[last.key_files[f].project_id].key_path = f
          /\ Len(last.pool) = 1

\* C32: get_random_project returns None, without raising, when the pool is
\* empty, and otherwise the member of the pool at the position drawn, so
\* that every member is returned for some draw.
C32_RandomProjectIsMember ==
    last.op = "get_random_project" =>
        /\ last.result = "returned"
        /\ last.pool = <<>> => last.ret = None
        /\ last.pool # <<>> =>
               /\ \E i \in DOMAIN last.pool : last.ret = last.pool[i]
               /\ last.ret = last.pool[last.r]

\* the second of two projects was returned
C32_Witness ==
    /\ last.op = "get_random_project"
    /\ Len(last.pool) = 2
    /\ last.ret = last.pool[2]

\* the item has the envelope and a text in it
HasText(item) == item.shaped /\ item.text # <<>>

\* a phrase of the item's text is a refusal pattern
Refuses(item) == \E k \in DOMAIN item.text : item.text[k] \in {"I cannot", "As an AI"}

\* C33: validate_output returns, and returns a failure exactly for the items
\* that have no text (the envelope absent or the text empty) or whose text
\* holds "I cannot" or "As an AI".
C33_ValidateOutputExact ==
    last.op = "validate_output" =>
        /\ last.result = "returned"
        /\ ~last.ret.valid <=> (~HasText(last.item) \/ Refuses(last.item))

\* an item with text and a refusal in second place was rejected, at stage 7
C33_Witness ==
    /\ last.op = "validate_output"
    /\ last.stage = FINAL_STAGE
    /\ HasText(last.item)
    /\ last.item.text = <<"Chapter", "As an AI">>
    /\ ~last.ret.valid

\* C34: the item of stage 1 has the job's id as custom_id, and the item of a
\* stage 2..7 has the custom_id of the output item it was built from.
C34_CustomIdCarriedForward ==
    /\ last.op = "build_stage_1" => last.ret.custom_id = last.job_uuid
    /\ last.op = "build_next_stage" => last.ret.custom_id = last.item.custom_id

\* a stage-1 item was built of a request that had an "id" of its own
C34_Witness ==
    /\ last.op = "build_stage_1"
    /\ "id" \in DOMAIN last.request_data
    /\ last.request_data.id # last.job_uuid
    /\ last.ret.custom_id = "j2"

\* C35: with the sweep run again and again, every job that is RUNNING is
\* COMPLETED or FAILED at some later time, also when MAX_CONCURRENT_JOBS or
\* more jobs are RUNNING.
C35_RunningJobsTerminate ==
    \A i \in 1..(MAX_CONCURRENT_JOBS + 1) :
        (jobs[i].status = "RUNNING") ~> (jobs[i].status \in {"COMPLETED", "FAILED"})

\* C36: in every reachable state, whatever the interleaving of concurrent
\* submit_job calls, at most MAX_CONCURRENT_JOBS jobs are RUNNING.
C36_RunningNeverExceedsCeiling ==
    RunningCount(jobs) <= MAX_CONCURRENT_JOBS

\* C37: submit_job never finishes with the job PENDING: it returns only with
\* the job RUNNING and its credential id and remote handle set, and raises
\* only with the job FAILED and a non-empty result_summary.
C37_SubmitNeverLeavesPending ==
    last.op = "submit_job" =>
        /\ last.result \in {"returned", "raised"}
        /\ jobs[last.job].status # "PENDING"
        /\ last.result = "returned" =>
              /\ jobs[last.job].status = "RUNNING"
              /\ jobs[last.job].used_project_id # ""
              /\ jobs[last.job].vertex_job_id # NoHandle
        /\ last.result = "raised" =>
              /\ jobs[last.job].status = "FAILED"
              /\ jobs[last.job].result_summary # NoMsg
              /\ jobs[last.job].result_summary.kind # ""

C37_Witness ==
    /\ last.op = "submit_job"
    /\ last.result = "returned"
    /\ jobs[last.job].status = "RUNNING"
    /\ jobs[last.job].vertex_job_id = HandleOf(jobs[last.job].used_project_id)

\* C38: submit_job attempts no remote submission before the stage-1 input is
\* uploaded: when the upload fails the job is FAILED, the call raises, no
\* candidate is tried and cooldown_until is as before; a call that tried a
\* candidate has stored the input URI, and every RUNNING job has one.
C38_NoSubmissionBeforeUpload ==
    /\ (last.op = "submit_job" /\ last.error.kind = "GCS Upload Failed") =>
          /\ jobs[last.job].status = "FAILED"
          /\ jobs[last.job].input_gcs_uri = ""
          /\ last.result = "raised"
          /\ last.attempts = <<>>
          /\ cooldown_until = last.cd0
    /\ (last.op = "submit_job" /\ last.attempts # <<>>) =>
          jobs[last.job].input_gcs_uri # ""
    /\ \A i \in DOMAIN jobs :
          jobs[i].status = "RUNNING" => jobs[i].input_gcs_uri # ""

C38_Witness ==
    /\ last.op = "submit_job"
    /\ last.error.kind = "GCS Upload Failed"
    /\ last.error.cause = "storage error"
    /\ project_pool # <<>>
    /\ last.uploads = 1
    /\ jobs[last.job].status = "FAILED"

\* the sweep got to the upload of the next stage's input for the row
Resubmitting(e) ==
    /\ e.did.polled
    /\ e.env.state = "JOB_STATE_SUCCEEDED"
    /\ e.before.current_stage < FINAL_STAGE
    /\ ValidItems(e.before.current_stage, e.env.results) # {}

UploadFailed(e) == upload_jsonl(project_pool, e.env.written).error # ""

SubmitFailed(e) ==
    /\ ~UploadFailed(e)
    /\ VertexHandler_submit_job(get_active_project(project_pool), SCHEDULER_SUBMIT_ARGS,
                                <<"stage", e.before.current_stage + 1>>,
                                e.env.accepted).error # ""

\* C39: when the upload or the submission of the next stage fails in a sweep,
\* the job's stage and remote handle after the sweep are those it had before,
\* and the failure is handled once: one retry consumed, or FAILED when none
\* is left.
C39_FailedResubmissionKeepsStage ==
    \A k \in DOMAIN Log :
        LET e == Log[k]
        IN  (Resubmitting(e) /\ (UploadFailed(e) \/ SubmitFailed(e))) =>
                /\ jobs[e.row].current_stage = e.before.current_stage
                /\ jobs[e.row].vertex_job_name = e.before.vertex_job_name
                /\ e.did.failures = 1
                /\ e.did.submits = (IF UploadFailed(e) THEN 0 ELSE 1)
                /\ IF e.before.retry_count < MAX_RETRIES
                   THEN /\ jobs[e.row].status = "RUNNING"
                        /\ jobs[e.row].retry_count = e.before.retry_count + 1
                   ELSE /\ jobs[e.row].status = "FAILED"
                        /\ jobs[e.row].retry_count = e.before.retry_count
                        /\ jobs[e.row].last_error.kind = "Submission failed:"

C39_Witness ==
    \E k \in DOMAIN Log :
        /\ Resubmitting(Log[k])
        /\ UploadFailed(Log[k])
        /\ Log[k].before.current_stage = 2
        /\ Log[k].before.retry_count = 1
        /\ jobs[Log[k].row].retry_count = 2
        /\ jobs[Log[k].row].current_stage = 2
        /\ jobs[Log[k].row].vertex_job_name = HandleOf("A")

====
